---- MODULE Spec2Model ----
(***************************************************************************)
(* Model of secure-server-fetch: the API-key policy and guard              *)
(* (src/src/requireApiKey.ts) and the outbound fetch wrapper               *)
(* (src/src/secureServerFetch.ts).                                         *)
(*                                                                         *)
(* A JavaScript string is a sequence of one-character strings.  null and   *)
(* undefined are the one-element sequences Null and Undefined, which no    *)
(* string equals because their element is not a single character.          *)
(***************************************************************************)
EXTENDS Integers, Sequences, FiniteSets, TLC

\* ------------------------------------------------------------------ bounds
\* longest variable prefix of a key handed to validateApiKey
MaxHead == 3
\* longest variable prefix of the expected key handed to requireApiKey
MaxExpHead == 3
\* longest variable prefix of the x-api-key header value
MaxProvHead == 3
\* longest string handed to constantTimeEqual on its own
MaxCmpLen == 3
\* longest variable prefix of the identifier handed to rateLimit
MaxIdHead == 3

\* ------------------------------------------------------- program constants
\* sanitizedKey.length >= 32
MinKeyLength == 32

Null == <<"<null>">>
Undefined == <<"<undefined>">>

\* ---------------------------------------------------------------- strings
\* Printable ASCII in code order, first entry is code 32 (the grave accent,
\* code 96, cannot be written in a TLA+ string and is a placeholder).
Printable ==
  << " ", "!", "\"", "#", "$", "%", "&", "'", "(", ")", "*", "+", ",", "-", ".", "/",
     "0", "1", "2", "3", "4", "5", "6", "7", "8", "9", ":", ";", "<", "=", ">", "?",
     "@", "A", "B", "C", "D", "E", "F", "G", "H", "I", "J", "K", "L", "M", "N", "O",
     "P", "Q", "R", "S", "T", "U", "V", "W", "X", "Y", "Z", "[", "\\", "]", "^", "_",
     "<grave>", "a", "b", "c", "d", "e", "f", "g", "h", "i", "j", "k", "l", "m", "n", "o",
     "p", "q", "r", "s", "t", "u", "v", "w", "x", "y", "z", "{", "|", "}", "~" >>

\* The code unit of every ASCII character the model writes.
CodeTable ==
  [c \in {Printable[i] : i \in 1..Len(Printable)} \cup {"\t", "\n", "\f", "\r"} |->
     CASE c = "\t" -> 9
       [] c = "\n" -> 10
       [] c = "\f" -> 12
       [] c = "\r" -> 13
       [] OTHER -> 31 + (CHOOSE i \in 1..Len(Printable) : Printable[i] = c)]

\* String.prototype.charCodeAt for a one-character string
CharCode(c) == CodeTable[c]

\* The regular-expression class \s, which is also what trim() strips
\* (restricted to ASCII; the vertical tab has no TLA+ escape).
IsWhiteSpace(c) == CharCode(c) \in {9, 10, 12, 13, 32}

\* [A-Z], [a-z], [0-9]
IsUpper(c) == CharCode(c) \in 65..90
IsLower(c) == CharCode(c) \in 97..122
IsDigit(c) == CharCode(c) \in 48..57
\* [A-Za-z0-9_-]
IsKeyChar(c) == IsUpper(c) \/ IsLower(c) \/ IsDigit(c) \/ c = "_" \/ c = "-"

\* /[A-Z]/.test(s), /[a-z]/.test(s), /[0-9]/.test(s): some character matches
TestUpper(s) == \E i \in 1..Len(s) : IsUpper(s[i])
TestLower(s) == \E i \in 1..Len(s) : IsLower(s[i])
TestDigit(s) == \E i \in 1..Len(s) : IsDigit(s[i])
\* /^[A-Za-z0-9_-]+$/.test(s): non-empty and every character matches
TestKeyChars(s) == Len(s) > 0 /\ \A i \in 1..Len(s) : IsKeyChar(s[i])

RECURSIVE TrimStart(_)
TrimStart(s) ==
  IF s # <<>> /\ IsWhiteSpace(Head(s)) THEN TrimStart(Tail(s)) ELSE s

RECURSIVE TrimEnd(_)
TrimEnd(s) ==
  IF s # <<>> /\ IsWhiteSpace(s[Len(s)]) THEN TrimEnd(SubSeq(s, 1, Len(s) - 1)) ELSE s

\* String.prototype.trim
Trim(s) == TrimEnd(TrimStart(s))

\* s.replace(/\s+/g, empty string): every maximal run of whitespace is replaced by
\* the empty string, scanning left to right.
RECURSIVE ReplaceWhiteSpaceRuns(_)
ReplaceWhiteSpaceRuns(s) ==
  IF s = <<>> THEN <<>>
  ELSE IF IsWhiteSpace(Head(s)) THEN ReplaceWhiteSpaceRuns(TrimStart(s))
  ELSE <<Head(s)>> \o ReplaceWhiteSpaceRuns(Tail(s))

\* ------------------------------------------------------------- key policy
\* variant: only the ends are trimmed
sanitizeApiKeyTrimOnly(key) == Trim(key)

sanitizeApiKey(key) == ReplaceWhiteSpaceRuns(Trim(key))

ErrLength == "API key must be at least 32 characters long"
ErrChars == "API key can only contain letters, numbers, underscores, and hyphens"
ErrMix == "API key must contain at least one uppercase letter, one lowercase letter, and one number"
NoError == "<undefined>"

\* variant: the character-set check is reported before the length check
validateApiKeyCharsFirst(key) ==
  LET sanitizedKey == sanitizeApiKey(key)
      hasMinLength == Len(sanitizedKey) >= MinKeyLength
      hasValidChars == TestKeyChars(sanitizedKey)
      hasMixedChars == /\ TestUpper(sanitizedKey)
                       /\ TestLower(sanitizedKey)
                       /\ TestDigit(sanitizedKey)
  IN  IF ~hasValidChars THEN [isValid |-> FALSE, error |-> ErrChars]
      ELSE IF ~hasMinLength THEN [isValid |-> FALSE, error |-> ErrLength]
      ELSE IF ~hasMixedChars THEN [isValid |-> FALSE, error |-> ErrMix]
      ELSE [isValid |-> TRUE, error |-> NoError]

validateApiKey(key) ==
  LET sanitizedKey == sanitizeApiKey(key)
      hasMinLength == Len(sanitizedKey) >= MinKeyLength
      hasValidChars == TestKeyChars(sanitizedKey)
      hasMixedChars == /\ TestUpper(sanitizedKey)
                       /\ TestLower(sanitizedKey)
                       /\ TestDigit(sanitizedKey)
  IN  IF ~hasMinLength THEN [isValid |-> FALSE, error |-> ErrLength]
      ELSE IF ~hasValidChars THEN [isValid |-> FALSE, error |-> ErrChars]
      ELSE IF ~hasMixedChars THEN [isValid |-> FALSE, error |-> ErrMix]
      ELSE [isValid |-> TRUE, error |-> NoError]

\* ------------------------------------------------- constant-time compare
\* Buffer.from(string): the UTF-8 bytes, one per ASCII character.
BufferFrom(s) == [i \in 1..Len(s) |-> CharCode(s[i])]

\* crypto.timingSafeEqual throws a RangeError on buffers of different
\* byte length and otherwise reports whether all bytes agree.
timingSafeEqualThrows(x, y) == Len(x) # Len(y)
timingSafeEqual(x, y) == \A i \in 1..Len(x) : x[i] = y[i]

constantTimeEqualThrows(a, b) ==
  IF Len(a) # Len(b)
    THEN timingSafeEqualThrows(BufferFrom(a), BufferFrom(a))
    ELSE timingSafeEqualThrows(BufferFrom(a), BufferFrom(b))

constantTimeEqual(a, b) ==
  IF Len(a) # Len(b)
    THEN timingSafeEqual(BufferFrom(a), BufferFrom(a))
    ELSE timingSafeEqual(BufferFrom(a), BufferFrom(b))

\* --------------------------------------------------------------- the guard
Requirements ==
  [format |-> "Must be at least 32 characters long",
   characters |-> "Can only contain letters, numbers, underscores, and hyphens",
   complexity |-> "Must contain at least one uppercase letter, one lowercase letter, and one number"]

\* a request, or a headers init, without any header
NoHeaders == [n \in {} |-> <<>>]

\* request.headers.get(name): null when the request has no such header.
\* A request is the function from its header names to their values.
HeadersGet(req, name) == IF name \in DOMAIN req THEN req[name] ELSE Null

\* JavaScript truthiness of a string-or-null value: !v is true for null,
\* undefined and the empty string.
Falsy(v) == v = Null \/ v = Undefined \/ v = <<>>

Throw(msg) == [kind |-> "throw", message |-> msg]
Response(st, b) == [kind |-> "response", status |-> st, body |-> b]
ReturnUndefined == [kind |-> "undefined"]

\* variant: only the emptiness of the expected key is checked
ExpectedKeyCheckEmptyOnly(expectedKey) ==
  IF Falsy(expectedKey) \/ Trim(expectedKey) = <<>>
    THEN Throw(<<"Expected API key cannot be empty">>)
    ELSE [kind |-> "ok"]

\* requireApiKey lines 110-118: "ok" or the thrown error
ExpectedKeyCheck(expectedKey) ==
  IF Falsy(expectedKey) \/ Trim(expectedKey) = <<>>
    THEN Throw(<<"Expected API key cannot be empty">>)
  ELSE LET sanitizedExpectedKey == sanitizeApiKey(expectedKey)
           expectedKeyValidation == validateApiKey(sanitizedExpectedKey)
       IN  IF ~expectedKeyValidation.isValid
             THEN Throw(<<"Expected API key does not meet security requirements: ",
                          expectedKeyValidation.error>>)
             ELSE [kind |-> "ok"]

\* variant: the missing-key body without the requirements object
MissingKeyResponseBare ==
  Response(401, [error |-> "API key is missing",
                 message |-> "Please provide 'x-api-key' header with a valid API key"])

MissingKeyResponse ==
  Response(401, [error |-> "API key is missing",
                 message |-> "Please provide 'x-api-key' header with a valid API key",
                 requirements |-> Requirements])

EmptyKeyResponse ==
  Response(401, [error |-> "Empty API key",
                 message |-> "API key cannot be empty",
                 requirements |-> Requirements])

\* variant: the malformed-key body with a fixed message
MalformedKeyResponseGeneric(providedKeyValidation) ==
  Response(401, [error |-> "Invalid API key format",
                 message |-> ErrLength,
                 requirements |-> Requirements])

MalformedKeyResponse(providedKeyValidation) ==
  Response(401, [error |-> "Invalid API key format",
                 message |-> providedKeyValidation.error,
                 requirements |-> Requirements])

\* variant: the mismatch body echoing the requirements
MismatchResponseVerbose ==
  Response(401, [error |-> "Invalid API key",
                 message |-> "The provided API key is not valid",
                 requirements |-> Requirements])

MismatchResponse ==
  Response(401, [error |-> "Invalid API key",
                 message |-> "The provided API key is not valid"])

\* The outcome of requireApiKey(request, expectedKey) together with the
\* calls it made on the way, in order.
requireApiKey(req, expectedKey) ==
  LET check == ExpectedKeyCheck(expectedKey)
  IN
  IF check.kind = "throw" THEN [outcome |-> check, calls |-> <<>>]
  ELSE
  LET sanitizedExpectedKey == sanitizeApiKey(expectedKey)
      providedKey == HeadersGet(req, "x-api-key")
      sanitizedProvidedKey == sanitizeApiKey(providedKey)
      providedKeyValidation == validateApiKey(sanitizedProvidedKey)
  IN
  IF Falsy(providedKey)
    THEN [outcome |-> MissingKeyResponse, calls |-> <<"headers.get">>]
  ELSE IF sanitizedProvidedKey = <<>>
    THEN [outcome |-> EmptyKeyResponse, calls |-> <<"headers.get">>]
  ELSE IF ~providedKeyValidation.isValid
    THEN [outcome |-> MalformedKeyResponse(providedKeyValidation),
          calls |-> <<"headers.get", "validateApiKey">>]
  ELSE IF constantTimeEqualThrows(sanitizedProvidedKey, sanitizedExpectedKey)
    THEN [outcome |-> Throw(<<"Input buffers must have the same byte length">>),
          calls |-> <<"headers.get", "validateApiKey", "constantTimeEqual">>]
  ELSE IF ~constantTimeEqual(sanitizedProvidedKey, sanitizedExpectedKey)
    THEN [outcome |-> MismatchResponse,
          calls |-> <<"headers.get", "validateApiKey", "constantTimeEqual">>]
  ELSE [outcome |-> ReturnUndefined,
        calls |-> <<"headers.get", "validateApiKey", "constantTimeEqual">>]

\* ------------------------------------------------------ secureServerFetch
\* timeout = 30000 in the destructuring of options
DefaultTimeout == 30000

\* String.prototype.toLowerCase on one ASCII character
ToLower(c) == IF IsUpper(c) THEN Printable[CharCode(c) + 32 - 31] ELSE c

IsAlpha(c) == IsUpper(c) \/ IsLower(c)
IsSchemeChar(c) == IsAlpha(c) \/ IsDigit(c) \/ c \in {"+", "-", "."}

\* index of the first ":" of s, or 0
ColonAt(s) ==
  IF \E i \in 1..Len(s) : s[i] = ":"
    THEN CHOOSE i \in 1..Len(s) : s[i] = ":" /\ \A j \in 1..(i - 1) : s[j] # ":"
    ELSE 0

SpecialSchemes == {<<"h","t","t","p">>, <<"h","t","t","p","s">>, <<"f","t","p">>,
                   <<"w","s">>, <<"w","s","s">>}

RECURSIVE SkipSlashes(_)
SkipSlashes(s) ==
  IF s # <<>> /\ Head(s) \in {"/", "\\"} THEN SkipSlashes(Tail(s)) ELSE s

\* new URL(url) without a base: the parsed protocol ("https:" as a string
\* of characters), or <<>> when the constructor throws.  The input is
\* stripped of surrounding spaces, the scheme is an ASCII letter followed by
\* letters, digits, "+", "-" or "." up to the first ":", it is lowercased,
\* and a special scheme needs a non-empty host.
URLProtocol(url) ==
  LET u == Trim(url)
      k == ColonAt(u)
      scheme == [i \in 1..(k - 1) |-> ToLower(u[i])]
      rest == SkipSlashes(SubSeq(u, k + 1, Len(u)))
  IN  IF k <= 1 THEN <<>>
      ELSE IF ~IsAlpha(u[1]) \/ \E i \in 1..(k - 1) : ~IsSchemeChar(u[i]) THEN <<>>
      ELSE IF scheme \in SpecialSchemes /\ (rest = <<>> \/ Head(rest) \in {"?", "#", ":", " "}) THEN <<>>
      ELSE scheme \o <<":">>

HttpsProtocol == <<"h","t","t","p","s",":">>

\* variant: every context counts as the server
isServerSideAlways(windowDefined) == TRUE

\* isServerSide(): typeof window === 'undefined'
isServerSide(windowDefined) == ~windowDefined

\* the value of an optional property, Undefined when it is not set
Prop(obj, name) == IF name \in DOMAIN obj THEN obj[name] ELSE Undefined

\* Header names are tokens and are stored lowercased.
HeaderNameLower(n) == IF n = "X-API-Key" THEN "x-api-key" ELSE n
HeaderNameValid(n) == n # "bad name"

\* Header values are stripped of surrounding HTTP whitespace and must not
\* contain a line break.
IsHttpSpace(c) == c \in {" ", "\t", "\n", "\r"}
RECURSIVE HttpTrimStart(_)
HttpTrimStart(s) == IF s # <<>> /\ IsHttpSpace(Head(s)) THEN HttpTrimStart(Tail(s)) ELSE s
RECURSIVE HttpTrimEnd(_)
HttpTrimEnd(s) ==
  IF s # <<>> /\ IsHttpSpace(s[Len(s)]) THEN HttpTrimEnd(SubSeq(s, 1, Len(s) - 1)) ELSE s
HeaderValueNormalize(v) == HttpTrimEnd(HttpTrimStart(v))
HeaderValueValid(v) == \A i \in 1..Len(v) : v[i] \notin {"\n", "\r"}

\* new Headers(init): TRUE when the constructor throws a TypeError
HeadersThrows(init) ==
  \E n \in DOMAIN init : ~HeaderNameValid(n) \/ ~HeaderValueValid(HeaderValueNormalize(init[n]))

\* new Headers(init) for an init whose names differ after lowercasing
NewHeaders(init) ==
  [n \in {HeaderNameLower(m) : m \in DOMAIN init} |->
     HeaderValueNormalize(init[CHOOSE m \in DOMAIN init : HeaderNameLower(m) = n])]

\* headers.set(name, value) with a valid value
HeadersSet(h, name, value) ==
  [n \in DOMAIN h \cup {HeaderNameLower(name)} |->
     IF n = HeaderNameLower(name) THEN HeaderValueNormalize(value) ELSE h[n]]

FetchError(errName, msg) == [name |-> errName, message |-> msg]

\* new NetworkError(message, status, statusText, responseBody); an argument
\* that is undefined leaves the property out of the record
NetworkError(msg, extra) ==
  [f \in {"name", "message"} \cup DOMAIN extra |->
     IF f = "name" THEN "NetworkError"
     ELSE IF f = "message" THEN msg
     ELSE extra[f]]


\* variant: the scheme is not checked
ValidateUrlParseOnly(url, options) ==
  IF URLProtocol(url) = <<>>
    THEN FetchError("ValidationError", [text |-> "Invalid URL provided: ", url |-> url])
    ELSE [name |-> "ok"]

\* secureServerFetch lines 113-122: the ValidationError thrown, or "ok"
ValidateUrl(url, options) ==
  LET protocol == URLProtocol(url)
  IN  IF protocol = <<>>
        THEN FetchError("ValidationError", [text |-> "Invalid URL provided: ", url |-> url])
      ELSE IF Prop(options, "requireHttps") # "false" /\ protocol # HttpsProtocol
        \* the HTTPS error is thrown inside the try and replaced by its catch
        THEN FetchError("ValidationError", [text |-> "Invalid URL provided: ", url |-> url])
      ELSE [name |-> "ok"]

\* variant: a caller-supplied x-api-key header is kept
AssembleHeadersCallerWins(options) ==
  LET apiKey == Prop(options, "apiKey")
      init == IF "headers" \in DOMAIN options THEN options.headers ELSE NoHeaders
  IN  IF HeadersThrows(init)
        THEN [threw |-> TRUE, error |-> FetchError("TypeError", [text |-> "Invalid header"])]
      ELSE IF Falsy(apiKey) \/ "x-api-key" \in DOMAIN NewHeaders(init)
        THEN [threw |-> FALSE, headers |-> NewHeaders(init)]
      ELSE IF ~HeaderValueValid(HeaderValueNormalize(apiKey))
        THEN [threw |-> TRUE, error |-> FetchError("TypeError", [text |-> "Invalid header value"])]
      ELSE [threw |-> FALSE, headers |-> HeadersSet(NewHeaders(init), "x-api-key", apiKey)]

\* secureServerFetch lines 129-133: the headers handed to fetch, or the
\* TypeError that new Headers / headers.set throws
AssembleHeaders(options) ==
  LET apiKey == Prop(options, "apiKey")
      init == IF "headers" \in DOMAIN options THEN options.headers ELSE NoHeaders
  IN  IF HeadersThrows(init)
        THEN [threw |-> TRUE, error |-> FetchError("TypeError", [text |-> "Invalid header"])]
      ELSE IF Falsy(apiKey)
        THEN [threw |-> FALSE, headers |-> NewHeaders(init)]
      ELSE IF ~HeaderValueValid(HeaderValueNormalize(apiKey))
        THEN [threw |-> TRUE, error |-> FetchError("TypeError", [text |-> "Invalid header value"])]
      ELSE [threw |-> FALSE, headers |-> HeadersSet(NewHeaders(init), "x-api-key", apiKey)]

\* const { timeout = 30000 } = options
TimeoutOf(options) == IF "timeout" \in DOMAIN options THEN options.timeout ELSE DefaultTimeout

\* response.ok
ResponseOk(status) == status \in 200..299

\* JSON.parse of the body texts the transport delivers: the decoded value,
\* or a record with failed set when the text is not JSON
JsonDecode(text) ==
  CASE text = "{\"data\":\"test\"}" -> [failed |-> FALSE, value |-> [data |-> "test"]]
    [] text = "{\"error\":\"not found\"}" -> [failed |-> FALSE, value |-> [error |-> "not found"]]
    [] OTHER -> [failed |-> TRUE]

StatusText(status) ==
  CASE status = 200 -> "OK"
    [] status = 404 -> "Not Found"
    [] OTHER -> ""

AbortError == FetchError("AbortError", [text |-> "This operation was aborted"])
SyntaxError == FetchError("SyntaxError", [text |-> "Unexpected token in JSON"])
BodyUsedError == FetchError("TypeError", [text |-> "Body is unusable"])
FetchFailed == FetchError("TypeError", [text |-> "fetch failed"])

\* variant: an AbortError is reported like any other transport failure
ClassifyNoTimeout(error, timeout) ==
  IF error.name = "NetworkError" THEN error
  ELSE NetworkError([text |-> "Network request failed: ", cause |-> error.message],
                    [responseBody |-> error])

\* secureServerFetch lines 176-190: what the outer catch rethrows
Classify(error, timeout) ==
  IF error.name = "NetworkError" THEN error
  ELSE IF error.name = "AbortError"
    THEN NetworkError([text |-> "Request timeout after <timeout>ms", timeout |-> timeout],
                      [statusText |-> "timeout"])
  ELSE NetworkError([text |-> "Network request failed: ", cause |-> error.message],
                    [responseBody |-> error])

\* ---------------------------------------------------------------- rateLimit
\* .slice(0, 100)
MaxIdentifierLength == 100
\* timeframeMs / 1000
MsPerSecond == 1000

\* the character class of the first replace of sanitizeIdentifier
UnsafeChars ==
  {"@", "{", "}", "(", ")", "[", "]", "/", "\\", "\"", "'", "<grave>", "~", ",", ".", ";",
   ":", "<", ">", "*", "&", "^", "%", "$", "#", "!", "?", "=", "+", "|"}

\* s.replace(/[unsafe]/g, '_'): every match is replaced on its own
ReplaceUnsafe(s) == [i \in 1..Len(s) |-> IF s[i] \in UnsafeChars THEN "_" ELSE s[i]]

\* s.replace(/[\s\n\r]+/g, '_'): every maximal run of whitespace is
\* replaced by one underscore.  A match starts at a whitespace character
\* that does not follow another one and takes the whole run; the string is
\* rebuilt by halves to keep the evaluation shallow on long identifiers.
MatchPiece(s, i) ==
  IF ~IsWhiteSpace(s[i]) THEN <<s[i]>>
  ELSE IF i > 1 /\ IsWhiteSpace(s[i - 1]) THEN <<>>
  ELSE <<"_">>
RECURSIVE ReplaceRunsIn(_, _, _)
ReplaceRunsIn(s, lo, hi) ==
  IF lo > hi THEN <<>>
  ELSE IF lo = hi THEN MatchPiece(s, lo)
  ELSE LET mid == (lo + hi) \div 2
       IN  ReplaceRunsIn(s, lo, mid) \o ReplaceRunsIn(s, mid + 1, hi)
ReplaceWhiteSpaceRunsBy_(s) == ReplaceRunsIn(s, 1, Len(s))

\* s.slice(0, n)
Slice0(s, n) == SubSeq(s, 1, IF Len(s) < n THEN Len(s) ELSE n)

RateLimitError(msg, st, remaining, reset) ==
  [name |-> "RateLimitError", message |-> msg, status |-> st,
   remainingRequests |-> remaining, resetTime |-> reset]

\* variant: the identifier is used as given, cut to 100 characters
sanitizeIdentifierNone(identifier) ==
  LET sanitized == Slice0(identifier, MaxIdentifierLength)
  IN  IF sanitized = <<>>
        THEN [threw |-> TRUE,
              error |-> RateLimitError("Identifier becomes empty after sanitization", 400, 0, 0)]
        ELSE [threw |-> FALSE, value |-> sanitized]

\* sanitizeIdentifier: the sanitized string, or the error thrown
sanitizeIdentifier(identifier) ==
  LET sanitized == Slice0(ReplaceWhiteSpaceRunsBy_(ReplaceUnsafe(identifier)),
                          MaxIdentifierLength)
  IN  IF sanitized = <<>>
        THEN [threw |-> TRUE,
              error |-> RateLimitError("Identifier becomes empty after sanitization", 400, 0, 0)]
        ELSE [threw |-> FALSE, value |-> sanitized]

\* A JavaScript number n or n + 1/2 is the record [whole |-> n, half |-> ..].
Num(n) == [whole |-> n, half |-> FALSE]
NumHalf(n) == [whole |-> n, half |-> TRUE]
\* Number.isInteger
NumberIsInteger(x) == ~x.half
\* x <= 0
NotPositive(x) == x.whole < 0 \/ (x.whole = 0 /\ ~x.half)

\* Math.round(ms / 1000) for an integer ms: halves round up
MathRoundSeconds(ms) == (2 * ms + MsPerSecond) \div (2 * MsPerSecond)

\* Number.prototype.toString for an integer
DigitChars == <<"0", "1", "2", "3", "4", "5", "6", "7", "8", "9">>
RECURSIVE NatToString(_)
NatToString(n) ==
  IF n < 10 THEN <<DigitChars[n + 1]>>
  ELSE NatToString(n \div 10) \o <<DigitChars[(n % 10) + 1]>>
NumberToString(n) == IF n < 0 THEN <<"-">> \o NatToString(0 - n) ELSE NatToString(n)

\* prefix = "@upstash/ratelimit" in the destructuring of the options
DefaultPrefix == "@upstash/ratelimit"

\* variant: the parameters are not checked
RateLimitValidateIdentifierOnly(identifier, maxRequests, timeframeMs, redisReady) ==
  IF Falsy(identifier)
    THEN [threw |-> TRUE, error |-> RateLimitError("Invalid identifier parameter", 400, 0, 0)]
  ELSE IF sanitizeIdentifier(identifier).threw
    THEN sanitizeIdentifier(identifier)
  ELSE IF ~redisReady
    THEN [threw |-> TRUE,
          error |-> RateLimitError("Redis client not properly initialized", 500, 0, 0)]
  ELSE [threw |-> FALSE, value |-> sanitizeIdentifier(identifier).value]

\* rateLimit lines 186-202: the error thrown before the try, or the
\* sanitized identifier
RateLimitValidate(identifier, maxRequests, timeframeMs, redisReady) ==
  IF Falsy(identifier)
    THEN [threw |-> TRUE, error |-> RateLimitError("Invalid identifier parameter", 400, 0, 0)]
  ELSE IF sanitizeIdentifier(identifier).threw
    THEN sanitizeIdentifier(identifier)
  ELSE IF ~NumberIsInteger(maxRequests) \/ NotPositive(maxRequests)
    THEN [threw |-> TRUE,
          error |-> RateLimitError("maxRequests must be a positive integer", 400, 0, 0)]
  ELSE IF ~NumberIsInteger(timeframeMs) \/ NotPositive(timeframeMs)
    THEN [threw |-> TRUE,
          error |-> RateLimitError("timeframeMs must be a positive integer", 400, 0, 0)]
  ELSE IF ~redisReady
    THEN [threw |-> TRUE,
          error |-> RateLimitError("Redis client not properly initialized", 500, 0, 0)]
  ELSE [threw |-> FALSE, value |-> sanitizeIdentifier(identifier).value]

\* rateLimit lines 205-213: the limiter built and the key it is asked about
LimiterCall(key, opts) ==
  [key |-> key,
   tokens |-> opts.maxRequests.whole,
   windowSeconds |-> MathRoundSeconds(opts.timeframeMs.whole),
   prefix |-> IF "prefix" \in DOMAIN opts THEN opts.prefix ELSE DefaultPrefix]

\* rateLimit lines 215-219
RateLimitHeaders(reply) ==
  [n \in {"X-RateLimit-Limit", "X-RateLimit-Remaining", "X-RateLimit-Reset"} |->
     CASE n = "X-RateLimit-Limit" -> NumberToString(reply.limit)
       [] n = "X-RateLimit-Remaining" -> NumberToString(reply.remaining)
       [] OTHER -> NumberToString(reply.reset)]

\* rateLimit lines 221-222: the local headers object at the throw of line 223
RateLimitDenyHeaders(reply, opts) ==
  [n \in DOMAIN RateLimitHeaders(reply) \cup {"Retry-After"} |->
     IF n = "Retry-After"
       THEN NumberToString(MathRoundSeconds(opts.timeframeMs.whole))
       ELSE RateLimitHeaders(reply)[n]]

\* variant: a denial is reported like a limiter failure
RateLimitSettleDenyAs500(reply, opts) ==
  IF ~reply.success
    THEN [kind |-> "throw", error |-> RateLimitError("Rate limit exceeded", 500, 0, 0)]
    ELSE [kind |-> "return", value |-> [success |-> TRUE, headers |-> RateLimitHeaders(reply)]]

\* rateLimit lines 215-238: what the call settles with once the limiter
\* has replied.  The Retry-After entry of line 222 is written to the local
\* headers object, which the thrown RateLimitError does not carry.
RateLimitSettle(reply, opts) ==
  IF ~reply.success
    THEN [kind |-> "throw",
          error |-> RateLimitError("Rate limit exceeded", 429, reply.remaining, reply.reset)]
    ELSE [kind |-> "return", value |-> [success |-> TRUE, headers |-> RateLimitHeaders(reply)]]

\* rateLimit lines 235-246: the limiter call threw an Error with this message
RateLimitCatch(message) ==
  [kind |-> "throw", error |-> RateLimitError(message, 500, 0, 0)]

\* -------------------------------------------------------------- redisClient
\* process.env.NODE_ENV ?? (empty string): an unset variable reads as ""
EnvOrEmpty(v) == IF v = "<undefined>" THEN "" ELSE v

\* isProd, line 15
isProd(nodeEnv) == EnvOrEmpty(nodeEnv) \notin {"development", "test", "preview"}

\* new RedisConnectionError(message, details); details is absent when
\* undefined is passed
RedisConnectionError(msg, details) ==
  [f \in {"name", "message"} \cup DOMAIN details |->
     IF f = "name" THEN "RedisConnectionError"
     ELSE IF f = "message" THEN msg
     ELSE details[f]]

\* errors.join(', ')
RECURSIVE Join(_)
Join(errors) ==
  IF errors = <<>> THEN ""
  ELSE IF Len(errors) = 1 THEN errors[1]
  ELSE errors[1] \o ", " \o Join(Tail(errors))

\* url.hostname of a URL with a special scheme: what follows the slashes
\* after the scheme, up to the port, path, query or fragment, lowercased
\* (user information and IP literals are left out)
HostEnd(rest) ==
  IF \E i \in 1..Len(rest) : rest[i] \in {"/", "\\", "?", "#", ":"}
    THEN (CHOOSE i \in 1..Len(rest) :
            /\ rest[i] \in {"/", "\\", "?", "#", ":"}
            /\ \A j \in 1..(i - 1) : rest[j] \notin {"/", "\\", "?", "#", ":"}) - 1
    ELSE Len(rest)
URLHostname(url) ==
  LET u == Trim(url)
      rest == SkipSlashes(SubSeq(u, ColonAt(u) + 1, Len(u)))
  IN  [i \in 1..HostEnd(rest) |-> ToLower(rest[i])]

\* String.prototype.endsWith
EndsWith(s, suffix) ==
  Len(s) >= Len(suffix) /\ SubSeq(s, Len(s) - Len(suffix) + 1, Len(s)) = suffix

UpstashSuffix == <<".", "u", "p", "s", "t", "a", "s", "h", ".", "i", "o">>
\* /^[A-Za-z0-9=_-]+$/
TestTokenChars(s) == s # <<>> /\ \A i \in 1..Len(s) : IsKeyChar(s[i]) \/ s[i] = "="
\* UPSTASH_REDIS_REST_TOKEN.length < 32
MinTokenLength == 32

\* lines 25-39: the complaints about UPSTASH_REDIS_REST_URL
UrlErrors(envUrl) ==
  IF Falsy(envUrl) THEN <<"UPSTASH_REDIS_REST_URL is not set">>
  ELSE IF URLProtocol(envUrl) = <<>> THEN <<"UPSTASH_REDIS_REST_URL must be a valid URL">>
  ELSE (IF URLProtocol(envUrl) # HttpsProtocol
          THEN <<"UPSTASH_REDIS_REST_URL must use HTTPS protocol">> ELSE <<>>)
       \o (IF ~EndsWith(URLHostname(envUrl), UpstashSuffix)
             THEN <<"UPSTASH_REDIS_REST_URL must be an Upstash Redis URL">> ELSE <<>>)

\* lines 42-48: the complaints about UPSTASH_REDIS_REST_TOKEN
TokenErrors(envToken) ==
  IF Falsy(envToken) THEN <<"UPSTASH_REDIS_REST_TOKEN is not set">>
  ELSE IF ~TestTokenChars(envToken)
    THEN <<"UPSTASH_REDIS_REST_TOKEN contains invalid characters">>
  ELSE IF Len(envToken) < MinTokenLength THEN <<"UPSTASH_REDIS_REST_TOKEN is too short">>
  ELSE <<>>

\* validateEnvironmentVariables: the error thrown, if any
validateEnvironmentVariables(envUrl, envToken, nodeEnv) ==
  LET errors == UrlErrors(envUrl) \o TokenErrors(envToken)
  IN  IF Len(errors) > 0
        THEN [threw |-> TRUE,
              error |-> IF isProd(nodeEnv)
                          THEN RedisConnectionError("Invalid Redis configuration",
                                                    [details |-> Join(errors)])
                          ELSE RedisConnectionError("Redis configuration error: " \o Join(errors),
                                                    NoHeaders)]
        ELSE [threw |-> FALSE]

\* testConnection lines 71-79: the error thrown when client.ping() rejects
\* with an Error carrying this message
testConnectionError(message, nodeEnv) ==
  IF isProd(nodeEnv)
    THEN RedisConnectionError("Failed to connect to Redis", [details |-> message])
    ELSE RedisConnectionError("Failed to connect to Redis: " \o message, NoHeaders)

\* lines 91-99: what the catch handler writes with console.error
ConnectionLog(error) ==
  (IF "details" \in DOMAIN error /\ error.details # ""
     THEN <<[label |-> "Redis connection error details:", text |-> error.details]>>
     ELSE <<>>)
  \o <<[label |-> "Redis connection test failed:", text |-> error.message]>>

\* ------------------------------------------------------------------ inputs
RECURSIVE Strings(_, _)
\* all strings over alphabet of length at most n
Strings(alphabet, n) ==
  IF n = 0 THEN {<<>>}
  ELSE LET shorter == Strings(alphabet, n - 1)
       IN  shorter \cup {<<c>> \o t : c \in alphabet, t \in {u \in shorter : Len(u) = n - 1}}

\* n copies of the lowercase letter a
Pad(n) == [i \in 1..n |-> "a"]

\* Keys around the length threshold: a variable prefix of at most maxHead
\* characters followed by padding, so that the lengths 0..maxHead and
\* MinKeyLength - maxHead .. MinKeyLength + maxHead all occur.
Keys(alphabet, maxHead) ==
  {h \o Pad(n) : h \in Strings(alphabet, maxHead),
                 n \in {0} \cup ((MinKeyLength - maxHead)..MinKeyLength)}

PolicyAlphabet == {"a", "B", "1", "-", "_", "@", " ", "\t"}
PolicyKeys == Keys(PolicyAlphabet, MaxHead)

\* keys for sanitizeApiKey: whitespace of every kind in front, inside and,
\* after the padding, behind
SanitizeTails == {<<>>, <<" ">>, <<"\n", "x">>, <<"\t", "\r">>}
SanitizeKeys ==
  {k \o t : k \in PolicyKeys \cup {<<"\f", "a", " ", "\n", "b">>}, t \in SanitizeTails}

ExpAlphabet == {"B", "1", " "}
ExpectedKeys == Keys(ExpAlphabet, MaxExpHead)

ProvAlphabet == {"a", "B", "1", "@", " "}
ProvidedKeys == Keys(ProvAlphabet, MaxProvHead)
Requests == {NoHeaders} \cup {[n \in {"x-api-key"} |-> k] : k \in ProvidedKeys}

CmpAlphabet == {"a", "b", "C"}
CmpStrings == Strings(CmpAlphabet, MaxCmpLen)

URLs ==
  { <<"h","t","t","p","s",":","/","/","a">>,
    <<"H","T","T","P","S",":","/","/","a">>,
    <<"h","t","t","p",":","/","/","a">>,
    <<"f","t","p",":","/","/","a">>,
    <<"h","t","t","p","s",":","/","/">>,
    <<"/","/","a">>,
    <<"a">>,
    <<>> }

\* an object with at most the one property name, set to one of values
Optional(name, values) == {NoHeaders} \cup {[n \in {name} |-> v] : v \in values}
\* { ...f, ...g }
Spread(f, g) == [n \in DOMAIN f \cup DOMAIN g |-> IF n \in DOMAIN g THEN g[n] ELSE f[n]]

HeaderInits ==
  { [n \in {"accept"} |-> <<"j">>],
    [n \in {"x-api-key"} |-> <<"c">>],
    [n \in {"X-API-Key"} |-> <<" ", "c">>],
    [n \in {"bad name"} |-> <<"v">>] }

ApiKeys == { <<>>, <<"k">>, <<" ", "k">>, <<"k", "\n", "k">> }
Timeouts == { 5000 }

OptionsSet ==
  { Spread(Spread(r, k), Spread(t, h)) :
      r \in Optional("requireHttps", {"true", "false"}),
      k \in Optional("apiKey", ApiKeys),
      t \in Optional("timeout", Timeouts),
      h \in Optional("headers", HeaderInits) }

Statuses == {200, 299, 300, 404}
Bodies == {"{\"data\":\"test\"}", "{\"error\":\"not found\"}", "Not found"}
Responses == [status : Statuses, body : Bodies]

IdAlphabet == {"u", "@", " "}
UserAt123 == <<"u","s","e","r","@","1","2","3">>
\* identifiers of length 0..MaxIdHead and around the 100-character cut
Identifiers ==
  {h \o Pad(n) : h \in Strings(IdAlphabet, MaxIdHead),
                 n \in {0} \cup ((MaxIdentifierLength - MaxIdHead)..MaxIdentifierLength)}
    \cup {UserAt123}

MaxRequestsValues == {Num(0), Num(0 - 1), Num(1), Num(100), NumHalf(1)}
TimeframeValues ==
  {Num(0), Num(0 - 1000), Num(1), Num(499), Num(500), Num(1499), Num(60000),
   NumHalf(0), NumHalf(1000)}
RateOptions ==
  {Spread([maxRequests |-> m, timeframeMs |-> t], x) :
     m \in MaxRequestsValues, t \in TimeframeValues, x \in Optional("prefix", {"app"})}

\* what ratelimit.limit resolves with; the limit is the configured maximum
ResetAt == 1700000060
LimiterReplies(tokens) ==
  {[success |-> TRUE, remaining |-> tokens - 1, reset |-> ResetAt, limit |-> tokens],
   [success |-> TRUE, remaining |-> 0, reset |-> ResetAt, limit |-> tokens],
   [success |-> FALSE, remaining |-> 0, reset |-> ResetAt, limit |-> tokens]}
\* the messages of the errors ratelimit.limit rejects with
LimiterFailures == {"fetch failed", "WRONGPASS invalid or missing auth token"}

NodeEnvs == {"<undefined>", "production", "staging", "development", "test", "preview"}
EnvUrls ==
  { Undefined,
    <<"a">>,
    <<"h","t","t","p","s",":","/","/","a",".","u","p","s","t","a","s","h",".","i","o">>,
    <<"h","t","t","p",":","/","/","a",".","u","p","s","t","a","s","h",".","i","o">>,
    <<"h","t","t","p","s",":","/","/","u","p","s","t","a","s","h",".","i","o">>,
    <<"h","t","t","p","s",":","/","/","e",".","c","o","/",".","u","p","s","t","a","s","h",".","i","o">>,
    <<"h","t","t","p",":","/","/","e",".","c","o">> }
EnvTokens ==
  { Undefined, <<"a", " ", "b">>, <<"a", "b", "c">>, Pad(MinTokenLength - 1),
    Pad(MinTokenLength), <<"=">> \o Pad(MinTokenLength) }
\* the messages of the errors client.ping rejects with
PingFailures == {"getaddrinfo ENOTFOUND a.upstash.io", "WRONGPASS invalid or missing auth token"}
\* the one rateLimit call made once the client module has loaded
LoadedIdentifiers == {<<"u">>, UserAt123}
LoadedRateOptions == {[maxRequests |-> Num(1), timeframeMs |-> Num(60000)]}

\* ------------------------------------------------------------------- state
VARIABLES
  mode,         \* which entry point this behaviour exercises
  key,          \* validateApiKey: the argument
  validation,   \* validateApiKey: the returned object
  sanitized,    \* sanitizeApiKey(key), once computed
  resanitized,  \* sanitizeApiKey of that result, once computed
  cmpA, cmpB,   \* constantTimeEqual: the arguments
  cmpResult,    \* constantTimeEqual: "true", "false" or "throw"
  request,      \* requireApiKey: the request's headers
  expectedKey,  \* requireApiKey: the expected key
  guard,        \* requireApiKey: outcome and calls made
  done,         \* the call has returned
  url,          \* secureServerFetch: the url argument
  options,      \* secureServerFetch: the options argument
  windowDefined,\* a window global exists
  fpc,          \* secureServerFetch: the await the call is suspended at
  transport,    \* the arguments of every fetch() call so far, in order
  timer,        \* "none", "armed", "fired" or "cleared"
  aborted,      \* controller.signal.aborted
  response,     \* the response fetch() resolved with
  fresult,      \* what the returned promise settled with
  identifier,   \* rateLimit: the identifier argument
  rateOptions,  \* rateLimit: the options argument
  redisReady,   \* the imported redis is an initialized Redis instance
  rpc,          \* rateLimit: "call", "limit" (awaiting the limiter) or "done"
  limiterCalls, \* every ratelimit.limit call so far, in order
  limiterReply, \* what the pending ratelimit.limit call settled with
  rresult,      \* what rateLimit's promise settled with
  nodeEnv,      \* process.env.NODE_ENV
  envUrl,       \* process.env.UPSTASH_REDIS_REST_URL
  envToken,     \* process.env.UPSTASH_REDIS_REST_TOKEN
  redisLoad,    \* redisClient module: "idle", "loaded" or "threw"
  loadError,    \* the error the module threw at its importer
  ping,         \* testConnection: "none", "pending", "ok" or "failed"
  consoleErrors,\* what console.error has written, in order
  exited        \* process.exit was called

guardVars ==
  <<key, validation, sanitized, resanitized, cmpA, cmpB, cmpResult, request, expectedKey, guard>>
fetchVars == <<url, options, windowDefined, fpc, transport, timer, aborted, response, fresult>>
rateVars == <<identifier, rateOptions, redisReady, rpc, limiterCalls, limiterReply, rresult>>
redisVars == <<nodeEnv, envUrl, envToken, redisLoad, loadError, ping, consoleErrors, exited>>
vars == <<mode, done, guardVars, fetchVars, rateVars, redisVars>>

Pending == [kind |-> "pending"]

\* a string that has not been computed yet
Unset == <<"<unset>">>

IdlePolicy ==
  key = <<>> /\ validation = Pending /\ sanitized = Unset /\ resanitized = Unset
IdleCompare == cmpA = <<>> /\ cmpB = <<>> /\ cmpResult = "pending"
IdleGuard == request = NoHeaders /\ expectedKey = <<>> /\ guard = Pending
NoResponse == [status |-> 0, body |-> ""]
IdleFetch ==
  /\ url = <<>> /\ options = NoHeaders /\ windowDefined = FALSE
  /\ fpc = "call" /\ transport = <<>> /\ timer = "none" /\ aborted = FALSE
  /\ response = NoResponse /\ fresult = Pending
IdleRate ==
  /\ identifier = <<>> /\ rateOptions = NoHeaders /\ redisReady = FALSE
  /\ rpc = "call" /\ limiterCalls = <<>> /\ limiterReply = Pending /\ rresult = Pending

IdleRedis ==
  /\ nodeEnv = "<undefined>" /\ envUrl = Undefined /\ envToken = Undefined
  /\ redisLoad = "idle" /\ loadError = Pending /\ ping = "none"
  /\ consoleErrors = <<>> /\ exited = FALSE

\* --- validateApiKey on its own
InitPolicy ==
  /\ mode = "policy" /\ done = FALSE
  /\ key \in PolicyKeys /\ validation = Pending
  /\ sanitized = Unset /\ resanitized = Unset
  /\ IdleCompare /\ IdleGuard /\ IdleFetch /\ IdleRate /\ IdleRedis

Validate ==
  /\ mode = "policy" /\ ~done
  /\ validation' = validateApiKey(key)
  /\ done' = TRUE
  /\ UNCHANGED <<mode, key, sanitized, resanitized, cmpA, cmpB, cmpResult, request, expectedKey,
               guard, fetchVars, rateVars, redisVars>>

SpecPolicy == InitPolicy /\ [][Validate]_vars

\* --- sanitizeApiKey on its own, applied to a key and then to its result
InitSanitize ==
  /\ mode = "sanitize" /\ done = FALSE
  /\ key \in SanitizeKeys /\ validation = Pending
  /\ sanitized = Unset /\ resanitized = Unset
  /\ IdleCompare /\ IdleGuard /\ IdleFetch /\ IdleRate /\ IdleRedis

Sanitize ==
  /\ mode = "sanitize" /\ sanitized = Unset
  /\ sanitized' = sanitizeApiKey(key)
  /\ UNCHANGED <<mode, done, key, validation, resanitized, cmpA, cmpB, cmpResult, request,
                 expectedKey, guard, fetchVars, rateVars, redisVars>>

SanitizeAgain ==
  /\ mode = "sanitize" /\ sanitized # Unset /\ resanitized = Unset
  /\ resanitized' = sanitizeApiKey(sanitized)
  /\ done' = TRUE
  /\ UNCHANGED <<mode, key, validation, sanitized, cmpA, cmpB, cmpResult, request,
                 expectedKey, guard, fetchVars, rateVars, redisVars>>

NextSanitize == Sanitize \/ SanitizeAgain

SpecSanitize == InitSanitize /\ [][NextSanitize]_vars

\* --- constantTimeEqual on its own
InitCompare ==
  /\ mode = "compare" /\ done = FALSE
  /\ cmpA \in CmpStrings /\ cmpB \in CmpStrings /\ cmpResult = "pending"
  /\ IdlePolicy /\ IdleGuard /\ IdleFetch /\ IdleRate /\ IdleRedis

Compare ==
  /\ mode = "compare" /\ ~done
  /\ cmpResult' = IF constantTimeEqualThrows(cmpA, cmpB) THEN "throw"
                   ELSE IF constantTimeEqual(cmpA, cmpB) THEN "true" ELSE "false"
  /\ done' = TRUE
  /\ UNCHANGED <<mode, key, validation, sanitized, resanitized, cmpA, cmpB, request, expectedKey,
               guard, fetchVars, rateVars, redisVars>>

SpecCompare == InitCompare /\ [][Compare]_vars

\* --- requireApiKey
InitGuard ==
  /\ mode = "guard" /\ done = FALSE
  /\ request \in Requests /\ expectedKey \in ExpectedKeys /\ guard = Pending
  /\ IdlePolicy /\ IdleCompare /\ IdleFetch /\ IdleRate /\ IdleRedis

RequireApiKey ==
  /\ mode = "guard" /\ ~done
  /\ guard' = requireApiKey(request, expectedKey)
  /\ done' = TRUE
  /\ UNCHANGED <<mode, key, validation, sanitized, resanitized, cmpA, cmpB, cmpResult, request,
               expectedKey, fetchVars, rateVars, redisVars>>

SpecGuard == InitGuard /\ [][RequireApiKey]_vars

\* --- secureServerFetch
InitFetch ==
  /\ mode = "fetch" /\ done = FALSE
  /\ url \in URLs /\ options \in OptionsSet /\ windowDefined \in BOOLEAN
  /\ fpc = "call" /\ transport = <<>> /\ timer = "none" /\ aborted = FALSE
  /\ response = NoResponse /\ fresult = Pending
  /\ IdlePolicy /\ IdleCompare /\ IdleGuard /\ IdleRate /\ IdleRedis

Rejected(error) == [kind |-> "error", error |-> error]
Resolved(value) == [kind |-> "payload", value |-> value]

\* variant: no finally block, the timer is left as it is
SettleWithoutFinally(result) ==
  /\ fresult' = result
  /\ fpc' = "done"
  /\ done' = TRUE
  /\ timer' = timer

\* The promise settles; the finally block of line 173 clears the timer if
\* it was started.
Settle(result) ==
  /\ fresult' = result
  /\ fpc' = "done"
  /\ done' = TRUE
  /\ timer' = IF timer = "armed" THEN "cleared" ELSE timer

\* an error leaves the inner try: finally, then the outer catch
Fail(error) == Settle(Rejected(Classify(error, TimeoutOf(options))))

\* Lines 113-144: the synchronous part of the call, up to the first await.
SecureServerFetch ==
  /\ mode = "fetch" /\ fpc = "call"
  /\ LET v == ValidateUrl(url, options)
         h == AssembleHeaders(options)
     IN  IF v.name # "ok"
           THEN /\ Settle(Rejected(v))
                /\ UNCHANGED transport
         ELSE IF ~isServerSide(windowDefined)
           THEN /\ Settle(Rejected(FetchError("ServerSideError",
                        [text |-> "secureServerFetch can only run on the server."])))
                /\ UNCHANGED transport
         ELSE IF h.threw
           THEN /\ Settle(Rejected(h.error))
                /\ UNCHANGED transport
         ELSE /\ timer' = "armed"
              /\ transport' = Append(transport, [url |-> url, headers |-> h.headers,
                                                signal |-> "controller.signal"])
              /\ fpc' = "fetch"
              /\ UNCHANGED <<fresult, done>>
  /\ UNCHANGED <<mode, guardVars, rateVars, redisVars, url, options, windowDefined, aborted, response>>

\* variant: the callback does not abort the controller
TimerFireWithoutAbort ==
  /\ mode = "fetch" /\ timer = "armed"
  /\ timer' = "fired"
  /\ UNCHANGED <<mode, done, guardVars, rateVars, redisVars, url, options, windowDefined, fpc, transport,
                 aborted, response, fresult>>

\* setTimeout's callback runs: controller.abort()
TimerFire ==
  /\ mode = "fetch" /\ timer = "armed"
  /\ timer' = "fired"
  /\ aborted' = TRUE
  /\ UNCHANGED <<mode, done, guardVars, rateVars, redisVars, url, options, windowDefined, fpc, transport,
                 response, fresult>>

\* fetch() resolves with a response (lines 140-146, 163): the body is then
\* read as JSON on either branch.
FetchResolve ==
  /\ mode = "fetch" /\ fpc = "fetch" /\ ~aborted
  /\ \E r \in Responses :
       /\ response' = r
       /\ fpc' = IF ResponseOk(r.status) THEN "okJson" ELSE "errJson"
  /\ UNCHANGED <<mode, done, guardVars, rateVars, redisVars, url, options, windowDefined, transport, timer,
                 aborted, fresult>>

\* fetch() rejects with a transport failure; once the signal is aborted the
\* pending promise is rejected with the AbortError instead (AbortReject)
FetchReject ==
  /\ mode = "fetch" /\ fpc = "fetch" /\ ~aborted
  /\ Fail(FetchFailed)
  /\ UNCHANGED <<mode, guardVars, rateVars, redisVars, url, options, windowDefined, transport, aborted, response>>

\* The operation awaited is cancelled through the signal and rejects with
\* an AbortError.  Around response.json() the error is caught and
\* response.text() is awaited next (lines 150-152, 165-170).
AbortReject ==
  /\ mode = "fetch" /\ aborted /\ fpc \in {"fetch", "errJson", "errText", "okJson", "okText"}
  /\ IF fpc = "errJson" THEN fpc' = "errText" /\ UNCHANGED <<fresult, done, timer>>
     ELSE IF fpc = "okJson" THEN fpc' = "okText" /\ UNCHANGED <<fresult, done, timer>>
     ELSE Fail(AbortError)
  /\ UNCHANGED <<mode, guardVars, rateVars, redisVars, url, options, windowDefined, transport, aborted, response>>

\* response.json() resolves (lines 149, 155-160 and 164)
JsonResolve ==
  /\ mode = "fetch" /\ fpc \in {"errJson", "okJson"} /\ ~aborted
  /\ ~JsonDecode(response.body).failed
  /\ IF fpc = "okJson"
       THEN Settle(Resolved(JsonDecode(response.body).value))
       ELSE Fail(NetworkError([text |-> "Request failed with status <status>",
                               status |-> response.status],
                              [status |-> response.status,
                               statusText |-> StatusText(response.status),
                               responseBody |-> JsonDecode(response.body).value]))
  /\ UNCHANGED <<mode, guardVars, rateVars, redisVars, url, options, windowDefined, transport, aborted, response>>

\* response.json() rejects because the body is not JSON; the catch awaits
\* response.text()
JsonReject ==
  /\ mode = "fetch" /\ fpc \in {"errJson", "okJson"}
  /\ JsonDecode(response.body).failed
  /\ fpc' = IF fpc = "errJson" THEN "errText" ELSE "okText"
  /\ UNCHANGED <<mode, done, guardVars, rateVars, redisVars, url, options, windowDefined, transport, timer,
                 aborted, response, fresult>>

\* response.text() resolves with the raw body (lines 152-160, 166-171)
TextResolve ==
  /\ mode = "fetch" /\ fpc \in {"errText", "okText"} /\ ~aborted
  /\ Fail(NetworkError(IF fpc = "errText"
                         THEN [text |-> "Request failed with status <status>",
                               status |-> response.status]
                         ELSE [text |-> "Failed to parse JSON response"],
                       [status |-> response.status,
                        statusText |-> StatusText(response.status),
                        responseBody |-> response.body]))
  /\ UNCHANGED <<mode, guardVars, rateVars, redisVars, url, options, windowDefined, transport, aborted, response>>

\* response.text() rejects because response.json() has consumed the body
TextReject ==
  /\ mode = "fetch" /\ fpc \in {"errText", "okText"}
  /\ Fail(BodyUsedError)
  /\ UNCHANGED <<mode, guardVars, rateVars, redisVars, url, options, windowDefined, transport, aborted, response>>

NextFetch ==
  \/ SecureServerFetch
  \/ TimerFire
  \/ FetchResolve
  \/ FetchReject
  \/ AbortReject
  \/ JsonResolve
  \/ JsonReject
  \/ TextResolve
  \/ TextReject

SpecFetch == InitFetch /\ [][NextFetch]_vars

\* The event loop runs a timer callback that is due, and an operation whose
\* signal is aborted rejects.
FairFetch == WF_vars(TimerFire) /\ WF_vars(AbortReject)
SpecFetchLive == SpecFetch /\ FairFetch

\* --- rateLimit
InitRate ==
  /\ mode = "rate" /\ done = FALSE
  /\ identifier \in Identifiers /\ rateOptions \in RateOptions /\ redisReady \in BOOLEAN
  /\ rpc = "call" /\ limiterCalls = <<>> /\ limiterReply = Pending /\ rresult = Pending
  /\ IdlePolicy /\ IdleCompare /\ IdleGuard /\ IdleFetch /\ IdleRedis

\* rateLimit can run: on its own, or in a process whose redisClient module
\* has loaded and which has not exited
RateRunning == mode = "rate" \/ (mode = "redis" /\ redisLoad = "loaded" /\ ~exited)

\* Lines 186-213: the synchronous part, up to the await of ratelimit.limit
RateLimit ==
  /\ RateRunning /\ rpc = "call"
  /\ LET v == RateLimitValidate(identifier, rateOptions.maxRequests,
                                rateOptions.timeframeMs, redisReady)
     IN  IF v.threw
           THEN /\ rresult' = [kind |-> "throw", error |-> v.error]
                /\ rpc' = "done" /\ done' = TRUE
                /\ UNCHANGED limiterCalls
           ELSE /\ limiterCalls' = Append(limiterCalls, LimiterCall(v.value, rateOptions))
                /\ rpc' = "limit"
                /\ UNCHANGED <<rresult, done>>
  /\ UNCHANGED <<mode, guardVars, fetchVars, redisVars, identifier, rateOptions, redisReady, limiterReply>>

\* ratelimit.limit resolves (lines 213-234)
LimiterResolve ==
  /\ RateRunning /\ rpc = "limit"
  /\ \E reply \in LimiterReplies(rateOptions.maxRequests.whole) :
       /\ limiterReply' = [kind |-> "resolve", value |-> reply]
       /\ rresult' = RateLimitSettle(reply, rateOptions)
  /\ rpc' = "done" /\ done' = TRUE
  /\ UNCHANGED <<mode, guardVars, fetchVars, redisVars, identifier, rateOptions, redisReady, limiterCalls>>

\* ratelimit.limit rejects (lines 235-246)
LimiterReject ==
  /\ RateRunning /\ rpc = "limit"
  /\ \E message \in LimiterFailures :
       /\ limiterReply' = [kind |-> "reject", message |-> message]
       /\ rresult' = RateLimitCatch(message)
  /\ rpc' = "done" /\ done' = TRUE
  /\ UNCHANGED <<mode, guardVars, fetchVars, redisVars, identifier, rateOptions, redisReady, limiterCalls>>

NextRate == RateLimit \/ LimiterResolve \/ LimiterReject

SpecRate == InitRate /\ [][NextRate]_vars

\* --- redisClient: the module is loaded, its connection test runs in the
\* background, and rateLimit is called with the exported client
InitRedis ==
  /\ mode = "redis" /\ done = FALSE
  /\ nodeEnv \in NodeEnvs /\ envUrl \in EnvUrls /\ envToken \in EnvTokens
  /\ redisLoad = "idle" /\ loadError = Pending /\ ping = "none"
  /\ consoleErrors = <<>> /\ exited = FALSE
  /\ identifier \in LoadedIdentifiers /\ rateOptions \in LoadedRateOptions
  /\ redisReady = FALSE
  /\ rpc = "call" /\ limiterCalls = <<>> /\ limiterReply = Pending /\ rresult = Pending
  /\ IdlePolicy /\ IdleCompare /\ IdleGuard /\ IdleFetch

\* Lines 83-91: the module body.  A configuration error is thrown at the
\* importer; otherwise the client is exported and the ping is started.
LoadRedisClient ==
  /\ mode = "redis" /\ redisLoad = "idle"
  /\ LET v == validateEnvironmentVariables(envUrl, envToken, nodeEnv)
     IN  IF v.threw
           THEN /\ redisLoad' = "threw" /\ loadError' = v.error /\ done' = TRUE
                /\ UNCHANGED <<redisReady, ping>>
           ELSE /\ redisLoad' = "loaded" /\ redisReady' = TRUE /\ ping' = "pending"
                /\ UNCHANGED <<loadError, done>>
  /\ UNCHANGED <<mode, guardVars, fetchVars, nodeEnv, envUrl, envToken, consoleErrors, exited,
                 identifier, rateOptions, rpc, limiterCalls, limiterReply, rresult>>

\* client.ping() resolves (line 70)
PingResolve ==
  /\ mode = "redis" /\ ping = "pending" /\ ~exited
  /\ ping' = "ok"
  /\ UNCHANGED <<mode, done, guardVars, fetchVars, rateVars, nodeEnv, envUrl, envToken,
                 redisLoad, loadError, consoleErrors, exited>>

\* client.ping() rejects: testConnection throws, the catch handler of lines
\* 91-101 logs and ends the process
PingReject ==
  /\ mode = "redis" /\ ping = "pending" /\ ~exited
  /\ \E message \in PingFailures :
       consoleErrors' = consoleErrors \o ConnectionLog(testConnectionError(message, nodeEnv))
  /\ ping' = "failed" /\ exited' = TRUE /\ done' = TRUE
  /\ UNCHANGED <<mode, guardVars, fetchVars, rateVars, nodeEnv, envUrl, envToken,
                 redisLoad, loadError>>

NextRedis ==
  \/ LoadRedisClient
  \/ PingResolve
  \/ PingReject
  \/ RateLimit
  \/ LimiterResolve
  \/ LimiterReject

SpecRedis == InitRedis /\ [][NextRedis]_vars

\* ================================================================ claims
\* Vocabulary of the claims, stated without the code's helpers.
NoSpace(s) == SelectSeq(s, LAMBDA c : c \notin {" ", "\t", "\n", "\f", "\r"})
Uppers == {"A","B","C","D","E","F","G","H","I","J","K","L","M",
           "N","O","P","Q","R","S","T","U","V","W","X","Y","Z"}
Lowers == {"a","b","c","d","e","f","g","h","i","j","k","l","m",
           "n","o","p","q","r","s","t","u","v","w","x","y","z"}
Digits == {"0","1","2","3","4","5","6","7","8","9"}
Chars(s) == {s[i] : i \in 1..Len(s)}
LongEnough(s) == Len(NoSpace(s)) >= 32
CleanChars(s) == Chars(NoSpace(s)) \subseteq (Uppers \cup Lowers \cup Digits \cup {"_", "-"})
Mixed(s) == /\ Chars(s) \cap Uppers # {}
            /\ Chars(s) \cap Lowers # {}
            /\ Chars(s) \cap Digits # {}
Strong(s) == LongEnough(s) /\ CleanChars(s) /\ Mixed(s)

GuardDone == mode = "guard" /\ done
HeaderPresent == "x-api-key" \in DOMAIN request
Header == request["x-api-key"]
Passed == guard.outcome.kind = "undefined"
Returned401 == guard.outcome.kind = "response" /\ guard.outcome.status = 401
HasRequirements ==
  /\ "requirements" \in DOMAIN guard.outcome.body
  /\ guard.outcome.body.requirements = Requirements
  /\ DOMAIN guard.outcome.body.requirements = {"format", "characters", "complexity"}

\* C1: requireApiKey returns undefined exactly when the sanitized expected
\* key and the sanitized provided key are both strong and are equal strings.
C1_PassIffStrongAndEqual ==
  GuardDone =>
    (Passed <=> /\ HeaderPresent
                /\ Strong(expectedKey) /\ Strong(Header)
                /\ NoSpace(Header) = NoSpace(expectedKey))

\* C2: constantTimeEqual(a, b) is true exactly when a and b are the same
\* string, and false otherwise, for strings of equal and of different length.
C2_EqualIffSame ==
  (mode = "compare" /\ done) =>
    cmpResult = (IF cmpA = cmpB THEN "true" ELSE "false")

\* C3: validateApiKey reports valid exactly for strong keys, and otherwise
\* reports the first failing check in the order length, characters, mix.
C3_ValidateFirstFailing ==
  (mode = "policy" /\ done) =>
    /\ validation.isValid <=> Strong(key)
    /\ validation.error =
         (IF ~LongEnough(key) THEN ErrLength
          ELSE IF ~CleanChars(key) THEN ErrChars
          ELSE IF ~Mixed(key) THEN ErrMix
          ELSE NoError)

\* a short key made of disallowed characters reports the length failure
C3_Witness ==
  /\ mode = "policy" /\ done
  /\ ~LongEnough(key) /\ ~CleanChars(key) /\ key # <<>>
  /\ validation = [isValid |-> FALSE, error |-> ErrLength]

\* C4: requireApiKey throws, without reading the request header, whenever
\* the expected key is empty, blank or not strong.
C4_WeakExpectedKeyThrows ==
  (GuardDone /\ ~Strong(expectedKey)) =>
    /\ guard.outcome.kind = "throw"
    /\ guard.calls = <<>>

\* a weak, non-blank expected key with a header equal to it
C4_Witness ==
  /\ GuardDone /\ ~Strong(expectedKey) /\ NoSpace(expectedKey) # <<>>
  /\ HeaderPresent /\ Header = expectedKey
  /\ guard.outcome.kind = "throw"

\* C5: with a strong expected key and no x-api-key header the result is the
\* 401 MissingKey response with the three requirement categories.
C5_MissingKey ==
  (GuardDone /\ Strong(expectedKey) /\ ~HeaderPresent) =>
    /\ Returned401
    /\ guard.outcome.body.error = "API key is missing"
    /\ HasRequirements

C5_Witness ==
  /\ GuardDone /\ Strong(expectedKey) /\ ~HeaderPresent
  /\ Returned401 /\ guard.outcome.body.error = "API key is missing"

\* C6: with a strong expected key, a header that is present and sanitizes
\* to the empty string yields the 401 EmptyKey response.
C6_EmptyKey ==
  (GuardDone /\ Strong(expectedKey) /\ HeaderPresent /\ NoSpace(Header) = <<>>) =>
    /\ Returned401
    /\ guard.outcome.body.error = "Empty API key"
    /\ HasRequirements

\* C7: with a strong expected key, a provided key that is non-empty after
\* sanitization and not strong yields the 401 MalformedKey response whose
\* message is validateApiKey's reason, and no comparison is made.
C7_MalformedKey ==
  (GuardDone /\ Strong(expectedKey) /\ HeaderPresent
     /\ NoSpace(Header) # <<>> /\ ~Strong(Header)) =>
    /\ Returned401
    /\ guard.outcome.body.error = "Invalid API key format"
    /\ guard.outcome.body.message = validateApiKey(Header).error
    /\ guard.outcome.body.message \in {ErrLength, ErrChars, ErrMix}
    /\ (Header = Pad(35) => guard.outcome.body.message = ErrMix)
    /\ \A i \in 1..Len(guard.calls) : guard.calls[i] # "constantTimeEqual"

\* the 35-character all-lowercase header
C7_Witness ==
  /\ GuardDone /\ Strong(expectedKey) /\ HeaderPresent /\ Header = Pad(35)
  /\ guard.outcome.body.message = ErrMix

\* C8: with a usable expected key every outcome other than Pass is a
\* returned response with status 401; its body carries the requirements
\* exactly for MissingKey, EmptyKey and MalformedKey, and the Mismatch body
\* has only the generic error and message.
C8_GuardFailuresAre401 ==
  (GuardDone /\ Strong(expectedKey) /\ ~Passed) =>
    /\ Returned401
    /\ guard.outcome.body.error \in
         {"API key is missing", "Empty API key", "Invalid API key format", "Invalid API key"}
    /\ ("requirements" \in DOMAIN guard.outcome.body) <=>
         (guard.outcome.body.error \in
            {"API key is missing", "Empty API key", "Invalid API key format"})
    /\ (guard.outcome.body.error = "Invalid API key") =>
         guard.outcome.body = [error |-> "Invalid API key",
                               message |-> "The provided API key is not valid"]

\* a strong provided key of the expected length and different content
C8_Witness ==
  /\ GuardDone /\ Strong(expectedKey) /\ HeaderPresent /\ Strong(Header)
  /\ NoSpace(Header) # NoSpace(expectedKey)
  /\ Returned401 /\ guard.outcome.body.error = "Invalid API key"

\* URLs of the input set that new URL rejects, and those whose scheme is https
UnparsableURLs == { <<"h","t","t","p","s",":","/","/">>, <<"/","/","a">>, <<"a">>, <<>> }
HttpsURLs == { <<"h","t","t","p","s",":","/","/","a">>, <<"H","T","T","P","S",":","/","/","a">> }
HttpURL == <<"h","t","t","p",":","/","/","a">>
HttpsNotRequired == "requireHttps" \in DOMAIN options /\ options.requireHttps = "false"
UrlAccepted == url \notin UnparsableURLs /\ (HttpsNotRequired \/ url \in HttpsURLs)
FetchCalled == mode = "fetch" /\ fpc # "call"
RejectedWith(errName) ==
  fpc = "done" /\ fresult.kind = "error" /\ fresult.error.name = errName

\* C9: fetch is called only for a URL that parses and, unless requireHttps
\* is false, has the https scheme; every other URL is rejected with a
\* ValidationError and no transport call; with requireHttps false an http
\* URL is handed to the transport.
C9_HttpsBeforeTransport ==
  /\ transport # <<>> => UrlAccepted
  /\ (FetchCalled /\ ~UrlAccepted) => (RejectedWith("ValidationError") /\ transport = <<>>)
  /\ (FetchCalled /\ UrlAccepted /\ ~windowDefined
        /\ ~AssembleHeaders(options).threw) =>
       (Len(transport) = 1 /\ transport[1].url = url)

\* the http URL reaches the transport when requireHttps is false
C9_Witness ==
  /\ FetchCalled /\ url = HttpURL /\ HttpsNotRequired
  /\ Len(transport) = 1 /\ transport[1].url = HttpURL

\* C10: with a window global present fetch is never called, no timer is
\* started and no headers are assembled; the call rejects with a
\* ValidationError when the URL check fails and with a ServerSideError
\* otherwise.
C10_NoTransportInBrowser ==
  (mode = "fetch" /\ windowDefined) =>
    /\ transport = <<>> /\ timer = "none"
    /\ FetchCalled =>
         IF UrlAccepted THEN RejectedWith("ServerSideError")
                        ELSE RejectedWith("ValidationError")

\* a valid https request carrying an API key, made where window exists
C10_Witness ==
  /\ mode = "fetch" /\ windowDefined /\ url \in HttpsURLs
  /\ "apiKey" \in DOMAIN options /\ options.apiKey = <<"k">>
  /\ RejectedWith("ServerSideError")

FetchDone == mode = "fetch" /\ fpc = "done"
IsNetworkError == fresult.kind = "error" /\ fresult.error.name = "NetworkError"
NonJsonBodies == {"Not found"}

\* C11: when the timer fires while fetch() is still pending, the signal
\* handed to fetch is aborted and the call rejects with the NetworkError
\* "Request timeout after <timeout>ms", statusText 'timeout' and no status;
\* <timeout> is 30000 when the option is not given.
C11_TimeoutWhileFetching ==
  /\ (mode = "fetch" /\ timer = "fired") =>
       (aborted /\ transport[1].signal = "controller.signal")
  /\ (FetchDone /\ aborted /\ response = NoResponse) =>
       /\ IsNetworkError
       /\ fresult.error.message =
            [text |-> "Request timeout after <timeout>ms",
             timeout |-> IF "timeout" \in DOMAIN options THEN options.timeout ELSE 30000]
       /\ "statusText" \in DOMAIN fresult.error /\ fresult.error.statusText = "timeout"
       /\ "status" \notin DOMAIN fresult.error

\* a call without a timeout option that timed out before any response
C11_Witness ==
  /\ FetchDone /\ aborted /\ response = NoResponse /\ "timeout" \notin DOMAIN options
  /\ IsNetworkError /\ fresult.error.message.timeout = 30000

\* C12: every call ends with a payload or with a ServerSideError, a
\* ValidationError or a NetworkError; no other exception escapes.
C12_OnlyTypedOutcomes ==
  FetchDone =>
    \/ fresult.kind = "payload"
    \/ /\ fresult.kind = "error"
       /\ fresult.error.name \in {"ServerSideError", "ValidationError", "NetworkError"}

\* C13: a non-2xx response (read without a timeout) rejects with a
\* NetworkError carrying its status and statusText and, as responseBody, the
\* decoded JSON body or else the raw text of the body.
C13_NonOkCarriesStatusAndBody ==
  (FetchDone /\ ~aborted /\ response # NoResponse /\ response.status \notin 200..299) =>
    /\ IsNetworkError
    /\ "status" \in DOMAIN fresult.error /\ fresult.error.status = response.status
    /\ fresult.error.statusText = StatusText(response.status)
    /\ fresult.error.responseBody =
         (IF response.body \in NonJsonBodies THEN response.body
          ELSE JsonDecode(response.body).value)

\* C14: a 2xx response whose body is not JSON (read without a timeout)
\* rejects with the NetworkError 'Failed to parse JSON response' carrying
\* the status, the statusText and the raw text, and never with a payload.
C14_UndecodableOkBody ==
  (FetchDone /\ ~aborted /\ response.status \in 200..299 /\ response.body \in NonJsonBodies) =>
    /\ IsNetworkError
    /\ fresult.error.message = [text |-> "Failed to parse JSON response"]
    /\ "status" \in DOMAIN fresult.error /\ fresult.error.status = response.status
    /\ fresult.error.statusText = StatusText(response.status)
    /\ fresult.error.responseBody = response.body

\* what the caller gave: the apiKey option and the headers option
ApiKeyGiven == "apiKey" \in DOMAIN options
CallerHeaders == IF "headers" \in DOMAIN options THEN options.headers ELSE NoHeaders
CallerKeyNames == DOMAIN CallerHeaders \cap {"x-api-key", "X-API-Key"}
\* v without its leading and trailing spaces, tabs and line breaks
StripEnds(v) ==
  LET inner == {i \in 1..Len(v) : v[i] \notin {" ", "\t", "\n", "\r"}}
  IN  IF inner = {} THEN <<>>
      ELSE SubSeq(v, CHOOSE i \in inner : \A j \in inner : i <= j,
                     CHOOSE i \in inner : \A j \in inner : i >= j)
SentHeaders == transport[1].headers

\* C15 as stated: whenever the apiKey option is present the x-api-key
\* header handed to fetch equals it.
C15_ApiKeyAlwaysSent ==
  (mode = "fetch" /\ transport # <<>> /\ ApiKeyGiven) =>
    ("x-api-key" \in DOMAIN SentHeaders /\ SentHeaders["x-api-key"] = options.apiKey)

\* C15 amended: a non-empty apiKey option is sent as x-api-key, stripped of
\* surrounding whitespace, whatever x-api-key the caller's headers hold;
\* without a non-empty apiKey the caller's x-api-key is sent as Headers
\* holds it; the caller's other headers are passed on.
C15_ApiKeyWins ==
  (mode = "fetch" /\ transport # <<>>) =>
    /\ (ApiKeyGiven /\ options.apiKey # <<>>) =>
         /\ "x-api-key" \in DOMAIN SentHeaders
         /\ SentHeaders["x-api-key"] = StripEnds(options.apiKey)
    /\ (~ApiKeyGiven \/ options.apiKey = <<>>) =>
         /\ ("x-api-key" \in DOMAIN SentHeaders) <=> (CallerKeyNames # {})
         /\ \A n \in CallerKeyNames : SentHeaders["x-api-key"] = StripEnds(CallerHeaders[n])
    /\ ("accept" \in DOMAIN SentHeaders) <=> ("accept" \in DOMAIN CallerHeaders)
    /\ "accept" \in DOMAIN CallerHeaders => SentHeaders["accept"] = CallerHeaders["accept"]
    /\ DOMAIN SentHeaders \subseteq {"x-api-key", "accept"}

\* the apiKey option together with a caller-supplied x-api-key header
C15_Witness ==
  /\ mode = "fetch" /\ transport # <<>>
  /\ ApiKeyGiven /\ options.apiKey = <<"k">> /\ CallerKeyNames # {}
  /\ SentHeaders["x-api-key"] = <<"k">>


\* --- rateLimit claims
RateDone == mode = "rate" /\ rpc = "done"
RateThrew(st) == rresult.kind = "throw" /\ rresult.error.status = st
WindowSeconds == MathRoundSeconds(rateOptions.timeframeMs.whole)
PositiveInteger(x) == ~x.half /\ x.whole > 0
IdentifierUsable == identifier # <<>>
LimiterReplied == limiterReply # Pending /\ limiterReply.kind = "resolve"
LimiterFailed == limiterReply # Pending /\ limiterReply.kind = "reject"
Denied == LimiterReplied /\ ~limiterReply.value.success
Allowed == LimiterReplied /\ limiterReply.value.success

\* C16: a positive integer timeframeMs whose window rounds to zero seconds is
\* rejected with status 400 and the limiter is never called with it.
C16_ZeroWindowRejected ==
  (mode = "rate" /\ IdentifierUsable /\ redisReady
     /\ PositiveInteger(rateOptions.maxRequests)
     /\ PositiveInteger(rateOptions.timeframeMs) /\ WindowSeconds = 0)
    => /\ limiterCalls = <<>>
       /\ RateDone => RateThrew(400)

\* C17: a maxRequests or timeframeMs that is not a positive integer fails
\* with status 400 and no limiter call; no call invokes the limiter more
\* than once.
BadParams ==
  \/ ~PositiveInteger(rateOptions.maxRequests)
  \/ ~PositiveInteger(rateOptions.timeframeMs)
C17_ParamsCheckedBeforeLimiter ==
  mode = "rate" =>
    /\ Len(limiterCalls) <= 1
    /\ BadParams => /\ limiterCalls = <<>>
                    /\ RateDone => RateThrew(400)
C17_Witness ==
  /\ RateDone /\ BadParams /\ IdentifierUsable /\ redisReady
  /\ PositiveInteger(rateOptions.maxRequests)
  /\ rateOptions.timeframeMs.half
  /\ RateThrew(400) /\ limiterCalls = <<>>

\* C18: a denial by the limiter is raised as status 429 with the limiter's
\* remaining count and reset time, a failure of the limiter call as status
\* 500, and 429 is raised for nothing but a denial.
C18_QuotaDistinctFromFailure ==
  RateDone =>
    /\ Denied => /\ RateThrew(429)
                 /\ rresult.error.remainingRequests = limiterReply.value.remaining
                 /\ rresult.error.resetTime = limiterReply.value.reset
    /\ LimiterFailed => RateThrew(500)
    /\ Allowed => rresult.kind = "return"
    /\ RateThrew(429) => Denied
C18_Witness ==
  /\ RateDone /\ Denied /\ RateThrew(429)
  /\ rresult.error.remainingRequests = 0 /\ rresult.error.resetTime = ResetAt

\* C19: whenever the limiter has replied, the outcome handed to the caller
\* carries the X-RateLimit-Limit, -Remaining and -Reset headers of the
\* reply, and on a denial also Retry-After, the window in seconds.
OutcomeHeaders ==
  IF rresult.kind = "return" THEN rresult.value.headers
  ELSE IF "headers" \in DOMAIN rresult.error THEN rresult.error.headers
  ELSE NoHeaders
C19_HeadersOnAllowAndDeny ==
  (RateDone /\ LimiterReplied) =>
    /\ \A n \in DOMAIN RateLimitHeaders(limiterReply.value) :
         /\ n \in DOMAIN OutcomeHeaders
         /\ OutcomeHeaders[n] = RateLimitHeaders(limiterReply.value)[n]
    /\ Denied => OutcomeHeaders = RateLimitDenyHeaders(limiterReply.value, rateOptions)

\* C20 as stated: the limiter key is the identifier with every unsafe and
\* every whitespace character replaced by an underscore of its own, cut to
\* 100 characters; an empty result is a 400 without a limiter call.
Underscored(s) ==
  [i \in 1..Len(s) |-> IF s[i] \in UnsafeChars \/ IsWhiteSpace(s[i]) THEN "_" ELSE s[i]]
KeyClean(k) == \A i \in 1..Len(k) : ~(k[i] \in UnsafeChars \/ IsWhiteSpace(k[i]))
C20_EachReplacedIndividually ==
  mode = "rate" =>
    /\ limiterCalls # <<>> =>
         limiterCalls[1].key = Slice0(Underscored(identifier), MaxIdentifierLength)
    /\ (RateDone /\ Underscored(identifier) = <<>>) =>
         (RateThrew(400) /\ limiterCalls = <<>>)

\* C20 amended: every unsafe character becomes an underscore of its own,
\* every maximal run of whitespace becomes one underscore, the result is cut
\* to 100 characters; the key has no unsafe or whitespace character, and an
\* empty result is a 400 without a limiter call.
WithPrevious(s) == [i \in 1..Len(s) |-> <<s[i], i > 1 /\ IsWhiteSpace(s[i - 1])>>]
StartsPiece(p) == ~(IsWhiteSpace(p[1]) /\ p[2])
DropRepeatedWhiteSpace(s) ==
  LET kept == SelectSeq(WithPrevious(s), StartsPiece)
  IN  [i \in 1..Len(kept) |-> kept[i][1]]
ExpectedLimiterKey ==
  Slice0(Underscored(DropRepeatedWhiteSpace(identifier)), MaxIdentifierLength)
C20_KeyIsSanitized ==
  mode = "rate" =>
    /\ limiterCalls # <<>> =>
         /\ limiterCalls[1].key = ExpectedLimiterKey
         /\ KeyClean(limiterCalls[1].key)
         /\ Len(limiterCalls[1].key) <= MaxIdentifierLength
    /\ (RateDone /\ ExpectedLimiterKey = <<>>) =>
         (RateThrew(400) /\ limiterCalls = <<>>)
C20_Witness ==
  /\ limiterCalls # <<>>
  /\ Len(identifier) > MaxIdentifierLength
  /\ \E i \in 1..(Len(identifier) - 1) :
       IsWhiteSpace(identifier[i]) /\ IsWhiteSpace(identifier[i + 1])
  /\ \E i \in 1..Len(identifier) : identifier[i] \in UnsafeChars
  /\ Len(limiterCalls[1].key) < Len(identifier)


\* --- sanitizeApiKey claims
HasWhiteSpace(s) == \E i \in 1..Len(s) : s[i] \in {" ", "\t", "\n", "\f", "\r"}

\* C21: sanitizeApiKey returns its input with every whitespace character
\* deleted, wherever it stands, so the result has no whitespace and
\* sanitizing it again changes nothing.
C21_SanitizeDeletesAllWhiteSpace ==
  mode = "sanitize" =>
    /\ sanitized # Unset => (sanitized = NoSpace(key) /\ ~HasWhiteSpace(sanitized))
    /\ resanitized # Unset => resanitized = sanitized
C21_Witness ==
  /\ mode = "sanitize" /\ resanitized # Unset
  /\ Len(key) > 3
  /\ HasWhiteSpace(<<key[1]>>) /\ HasWhiteSpace(<<key[Len(key)]>>)
  /\ \E i \in 2..(Len(key) - 2) :
       HasWhiteSpace(<<key[i]>>) /\ HasWhiteSpace(<<key[i + 1]>>)
         /\ ~HasWhiteSpace(<<key[i - 1]>>) /\ ~HasWhiteSpace(<<key[i + 2]>>)
  /\ Len(sanitized) < Len(key) /\ sanitized # <<>>


\* --- secureServerFetch: the timer
TimeoutMessage ==
  [text |-> "Request timeout after <timeout>ms", timeout |-> TimeoutOf(options)]

\* C22: once a call has ended its timer is not armed, so it cannot fire or
\* abort afterwards; a call that fails the URL check or the context check
\* never starts a timer.
C22_TimerCancelledOnEveryExit ==
  /\ [](FetchDone => timer # "armed")
  /\ []((mode = "fetch" /\ (~UrlAccepted \/ windowDefined)) => timer = "none")
  /\ [][FetchDone => UNCHANGED <<timer, aborted>>]_vars
\* the transport threw while the timer was armed
C22_Witness ==
  /\ FetchDone /\ timer = "cleared" /\ ~aborted /\ response = NoResponse
  /\ IsNetworkError

\* C24: a call that has started ends, given that an armed timer fires and
\* an aborted operation rejects; fetch is called at most once per call.
C24_CallTerminates ==
  /\ (FetchCalled ~> FetchDone)
  /\ [](Len(transport) <= 1)
\* the timer fired while the body was being decoded, and the call ended
C24_Witness ==
  /\ FetchDone /\ timer = "fired" /\ response # NoResponse /\ Len(transport) = 1

\* C25: when the timer fires after the response has arrived and before its
\* body is decoded, the call rejects with the timeout NetworkError, which
\* carries no status.
C25_TimeoutWhileDecoding ==
  (FetchDone /\ aborted /\ response # NoResponse) =>
    /\ IsNetworkError
    /\ fresult.error.message = TimeoutMessage
    /\ "status" \notin DOMAIN fresult.error


\* --- redisClient claims
Production == mode = "redis" /\ isProd(nodeEnv)
GenericMessages ==
  {"Invalid Redis configuration", "Failed to connect to Redis", "Internal Server Error"}

\* C23: in a production-like environment the message of an error that
\* reaches the caller is never a message of the store: the configuration
\* error and the logged connection error are generic with the cause in the
\* details, and so is the error of rateLimit when the limiter call fails.
RedisClientGeneric ==
  /\ redisLoad = "threw" =>
       /\ loadError.message = "Invalid Redis configuration"
       /\ loadError.details = Join(UrlErrors(envUrl) \o TokenErrors(envToken))
  /\ ping = "failed" =>
       consoleErrors[Len(consoleErrors)].text = "Failed to connect to Redis"
RateLimitGeneric ==
  (rpc = "done" /\ LimiterFailed) =>
    /\ rresult.error.status = 500
    /\ rresult.error.message \in GenericMessages
    /\ rresult.error.message # limiterReply.message
C23_NoStoreMessageInProduction == Production => (RedisClientGeneric /\ RateLimitGeneric)

====
